---- MODULE Spec2Model ----
(***************************************************************************)
(* Model of sample-data/validate-samples.py: the date recogniser           *)
(* (validate_date), the file validator (validate_csv_file) and the driver  *)
(* (main).                                                                 *)
(*                                                                         *)
(* A Python str is a sequence of one-character strings; Python's None is   *)
(* the one-element sequence None, whose element is not a character.        *)
(***************************************************************************)
EXTENDS Integers, Sequences, FiniteSets, TLC

VARIABLES
    VALID_TYPES,    \* module-level set of accepted item types
    DATE_FORMATS,   \* module-level list of strptime formats
    pc,             \* control location of the running caller
    csv_files,      \* main: sorted list of discovered paths
    next_file,      \* main: number of loop iterations started
    total_files, total_errors, total_warnings, total_rows,
    exit_code,      \* main: returned status, -1 while running
    validated,      \* history: the paths handed to validate_csv_file, in order
    sum_errors,     \* history: sum of the lengths of the error lists returned
    sum_rows,       \* history: sum of the row counts returned
    aborts,         \* history: calls that ended in an except clause
    filepath,       \* validate_csv_file: argument
    headers,        \* validate_csv_file: reader.fieldnames
    consumed,       \* validate_csv_file: data records fetched from the reader
    en_index,       \* validate_csv_file: the next index enumerate yields
    idx,            \* validate_csv_file: the index of the last record, 0 before
    errors, warnings, row_count,
    raised,         \* validate_csv_file: the exception caught, "" if none
    ret,            \* validate_csv_file: the returned triple, <<>> before
    disk,           \* file system: what is known of each path's content
    calls,          \* repeated caller: calls made
    outcomes,       \* repeated caller: the log of (path, triple returned)
    date_str,       \* date caller: argument of validate_date
    date_result     \* date caller: result of validate_date

vars == <<VALID_TYPES, DATE_FORMATS, pc, csv_files, next_file, total_files,
          total_errors, total_warnings, total_rows, exit_code, validated,
          sum_errors, sum_rows, aborts, filepath, headers, consumed, en_index,
          idx, errors, warnings, row_count, raised, ret, disk, calls,
          outcomes, date_str, date_result>>

(***************************************************************************)
(* Bounds of the model.                                                    *)
(***************************************************************************)
MaxFiles == 2
MaxRows == 2
MaxPad == 1
MaxCalls == 3

(***************************************************************************)
(* Strings.                                                                *)
(***************************************************************************)
None == <<"None">>

Whitespace == {" "}

UpperToLower ==
    [A |-> "a", B |-> "b", C |-> "c", D |-> "d", E |-> "e", F |-> "f",
     G |-> "g", H |-> "h", I |-> "i", J |-> "j", K |-> "k", L |-> "l",
     M |-> "m", N |-> "n", O |-> "o", P |-> "p", Q |-> "q", R |-> "r",
     S |-> "s", T |-> "t", U |-> "u", V |-> "v", W |-> "w", X |-> "x",
     Y |-> "y", Z |-> "z"]

RECURSIVE lstrip(_)
lstrip(s) ==
    IF s # <<>> /\ Head(s) \in Whitespace THEN lstrip(Tail(s)) ELSE s

RECURSIVE rstrip(_)
rstrip(s) ==
    IF s # <<>> /\ s[Len(s)] \in Whitespace
    THEN rstrip(SubSeq(s, 1, Len(s) - 1))
    ELSE s

strip(s) == rstrip(lstrip(s))

lower(s) ==
    [i \in 1..Len(s) |->
        IF s[i] \in DOMAIN UpperToLower THEN UpperToLower[s[i]] ELSE s[i]]

(***************************************************************************)
(* datetime.strptime(data_string, format), as validate_date uses it.       *)
(* The format is compiled to a regular expression: "%" takes the next      *)
(* character as a directive, an unknown directive raises ValueError, any   *)
(* other character matches itself.  The expression is matched from the     *)
(* start of the string with the alternatives of each directive tried in    *)
(* order; the match must end at the end of the string, and the fields must *)
(* form a calendar date.                                                   *)
(***************************************************************************)
Digit == {"0", "1", "2", "3", "4", "5", "6", "7", "8", "9"}

DigitVal(c) ==
    CASE c = "0" -> 0 [] c = "1" -> 1 [] c = "2" -> 2 [] c = "3" -> 3
      [] c = "4" -> 4 [] c = "5" -> 5 [] c = "6" -> 6 [] c = "7" -> 7
      [] c = "8" -> 8 [] c = "9" -> 9

KnownDirectives ==
    {"a", "A", "b", "B", "c", "d", "f", "G", "H", "I", "j", "m", "M", "p",
     "S", "u", "U", "V", "w", "W", "x", "X", "y", "Y", "z", "Z", "%"}

ValueError == <<"ValueError">>

IsDigit(s, p) == p <= Len(s) /\ s[p] \in Digit

Num2(s, p) == 10 * DigitVal(s[p]) + DigitVal(s[p + 1])

\* The alternatives of a directive that match s at p, in the order the
\* expression tries them, each with its length and value.
\*   %Y  \d\d\d\d
\*   %m  1[0-2]|0[1-9]|[1-9]
\*   %d  3[0-1]|[1-2]\d|0[1-9]|[1-9]| [1-9]
Alternatives(d, s, p) ==
    LET two(hi) == IsDigit(s, p) /\ IsDigit(s, p + 1) /\ Num2(s, p) \in 1..hi
        one == IsDigit(s, p) /\ s[p] # "0"
        spaced == p <= Len(s) /\ s[p] = " " /\ IsDigit(s, p + 1)
                    /\ s[p + 1] # "0"
        Two(hi) == IF two(hi) THEN <<[len |-> 2, val |-> Num2(s, p)]>>
                   ELSE <<>>
        One == IF one THEN <<[len |-> 1, val |-> DigitVal(s[p])]>> ELSE <<>>
        Spaced == IF spaced THEN <<[len |-> 2, val |-> DigitVal(s[p + 1])]>>
                  ELSE <<>>
    IN  CASE d = "Y" ->
               IF \A k \in 0..3 : IsDigit(s, p + k)
               THEN <<[len |-> 4,
                       val |-> 100 * Num2(s, p) + Num2(s, p + 2)]>>
               ELSE <<>>
          [] d = "m" -> Two(12) \o One
          [] d = "d" -> Two(31) \o One \o Spaced

\* The format as a list of tokens: a directive, a literal, or a bad directive.
RECURSIVE Compile(_)
Compile(fmt) ==
    IF fmt = <<>> THEN <<>>
    ELSE IF Head(fmt) = "%"
    THEN IF Len(fmt) < 2 \/ fmt[2] \notin KnownDirectives
         THEN <<[kind |-> "bad", c |-> "%"]>>
         ELSE <<[kind |-> "directive", c |-> fmt[2]]>>
              \o Compile(SubSeq(fmt, 3, Len(fmt)))
    ELSE <<[kind |-> "literal", c |-> Head(fmt)]>> \o Compile(Tail(fmt))

\* The first match of the tokens against s from p, by backtracking:
\* <<>> when there is none, else one record with the end and the fields.
RECURSIVE MatchFrom(_, _, _, _), FirstOf(_, _, _, _, _)
MatchFrom(toks, s, p, got) ==
    IF toks = <<>> THEN <<[got EXCEPT !.end = p]>>
    ELSE LET t == Head(toks)
         IN  IF t.kind = "literal"
             THEN IF p <= Len(s) /\ s[p] = t.c
                  THEN MatchFrom(Tail(toks), s, p + 1, got)
                  ELSE <<>>
             ELSE FirstOf(Alternatives(t.c, s, p), toks, s, p, got)

FirstOf(alts, toks, s, p, got) ==
    IF alts = <<>> THEN <<>>
    ELSE LET a == Head(alts)
             r == MatchFrom(Tail(toks), s, p + a.len,
                            [got EXCEPT ![Head(toks).c] = a.val])
         IN  IF r # <<>> THEN r ELSE FirstOf(Tail(alts), toks, s, p, got)

IsLeap(y) == y % 4 = 0 /\ (y % 100 # 0 \/ y % 400 = 0)

DaysInMonth(y, m) ==
    IF m = 2 THEN (IF IsLeap(y) THEN 29 ELSE 28)
    ELSE IF m \in {4, 6, 9, 11} THEN 30 ELSE 31

\* datetime.date(y, m, d) exists
ValidDate(y, m, d) ==
    y \in 1..9999 /\ m \in 1..12 /\ d \in 1..DaysInMonth(y, m)

\* The date <<year, month, day>>, or ValueError.
strptime(data_string, format) ==
    LET toks == Compile(format)
    IN  IF \E i \in 1..Len(toks) : toks[i].kind = "bad" THEN ValueError
        ELSE LET r == MatchFrom(toks, data_string, 1,
                                [Y |-> 1900, m |-> 1, d |-> 1, end |-> 0])
             IN  IF r = <<>> THEN ValueError
                 ELSE IF r[1].end # Len(data_string) + 1 THEN ValueError
                 ELSE IF ~ValidDate(r[1].Y, r[1].m, r[1].d) THEN ValueError
                 ELSE <<r[1].Y, r[1].m, r[1].d>>

(***************************************************************************)
(* validate_date                                                           *)
(***************************************************************************)
\* The format list with one more entry, the year first and slashes.
DateFormatsYearFirstSlash ==
    << <<"%", "Y", "-", "%", "m", "-", "%", "d">>,
       <<"%", "m", "/", "%", "d", "/", "%", "Y">>,
       <<"%", "m", "-", "%", "d", "-", "%", "Y">>,
       <<"%", "-", "m", "/", "%", "-", "d", "/", "%", "Y">>,
       <<"%", "m", "/", "%", "d", "/", "%", "Y">>,
       <<"%", "Y", "/", "%", "m", "/", "%", "d">> >>

\* Lines 14-20.
DateFormatList ==
    << <<"%", "Y", "-", "%", "m", "-", "%", "d">>,
       <<"%", "m", "/", "%", "d", "/", "%", "Y">>,
       <<"%", "m", "-", "%", "d", "-", "%", "Y">>,
       <<"%", "-", "m", "/", "%", "-", "d", "/", "%", "Y">>,
       <<"%", "m", "/", "%", "d", "/", "%", "Y">> >>

\* for fmt in formats: try strptime; except ValueError: continue
RECURSIVE TryFormats(_, _)
TryFormats(date_str_, formats) ==
    IF formats = <<>> THEN [valid |-> FALSE, parsed |-> None]
    ELSE LET dt == strptime(strip(date_str_), Head(formats))
         IN  IF dt # ValueError THEN [valid |-> TRUE, parsed |-> dt]
             ELSE TryFormats(date_str_, Tail(formats))

IsBlankArgument(date_str_) ==
    date_str_ = None \/ date_str_ = <<>> \/ strip(date_str_) = <<>>

validate_date(date_str_) ==
    IF IsBlankArgument(date_str_)
    THEN [valid |-> TRUE, parsed |-> None]
    ELSE TryFormats(date_str_, DATE_FORMATS)

(***************************************************************************)
(* Module-level constants of the validator.                                *)
(***************************************************************************)
ValidTypeSet ==
    { <<"t", "a", "s", "k">>,
      <<"m", "i", "l", "e", "s", "t", "o", "n", "e">>,
      <<"r", "e", "l", "e", "a", "s", "e">>,
      <<"m", "e", "e", "t", "i", "n", "g">> }

type_aliases == <<"type", "Type">>

date_fields ==
    << <<"start_date", "Start Date", "Start", "start">>,
       <<"end_date", "End Date", "Finish", "end", "Due Date">>,
       <<"Date", "date">> >>

\* An enumeration that counts the header as row 0.
EnumerateFromOne == 2 - 1

\* Line 51: enumerate(reader, start=2)
EnumerateStart == 2

(***************************************************************************)
(* Messages.  Every message is a record of the same shape: the kind of     *)
(* message and the values its f-string interpolates.                       *)
(***************************************************************************)
InvalidTypeMsg(n, type_field) ==
    [kind |-> "Invalid type", row |-> n, value |-> type_field, column |-> ""]

InvalidDateMsg(n, date_val, field_name) ==
    [kind |-> "Invalid date format", row |-> n, value |-> date_val,
     column |-> field_name]

NoHeadersMsg ==
    [kind |-> "No headers found", row |-> 0, value |-> <<>>, column |-> ""]

CsvErrorMsg(e) ==
    [kind |-> "CSV parsing error", row |-> 0, value |-> <<e>>, column |-> ""]

UnexpectedMsg(e) ==
    [kind |-> "Unexpected error", row |-> 0, value |-> <<e>>, column |-> ""]

(***************************************************************************)
(* Exceptions.  The except clauses of validate_csv_file: csv.Error first,  *)
(* then Exception; anything else leaves the function.                      *)
(***************************************************************************)
ExceptionSubclasses ==
    {"csv.Error", "OSError", "UnicodeDecodeError", "AttributeError"}

\* The except clauses without the second one.
ExceptCsvErrorOnly(e) ==
    IF e = "csv.Error" THEN <<CsvErrorMsg(e)>> ELSE <<>>

ExceptClause(e) ==
    IF e = "csv.Error" THEN <<CsvErrorMsg(e)>>
    ELSE IF e \in ExceptionSubclasses THEN <<UnexpectedMsg(e)>>
    ELSE <<>>

(***************************************************************************)
(* The body of the row loop.                                               *)
(***************************************************************************)
\* csv.DictReader: dict(zip(fieldnames, record)), the fields a short record
\* lacks filled with restval = None.  (The fields a long record has beyond
\* the header go under the key None, which no check reads.)
RowDict(fieldnames, cells) ==
    [c \in {fieldnames[i] : i \in 1..Len(fieldnames)} |->
        LET i == CHOOSE j \in 1..Len(fieldnames) :
                     /\ fieldnames[j] = c
                     /\ \A k \in (j + 1)..Len(fieldnames) : fieldnames[k] # c
        IN  IF i <= Len(cells) THEN cells[i] ELSE None]

\* row.get('type', row.get('Type', ''))
TypeCell(r) ==
    IF "type" \in DOMAIN r THEN r["type"]
    ELSE IF "Type" \in DOMAIN r THEN r["Type"]
    ELSE <<>>

\* Lines 55-58: the exception raised, "" if none, and the errors appended.
TypeCheck(n, r) ==
    IF "type" \in DOMAIN r \/ "Type" \in DOMAIN r
    THEN IF TypeCell(r) = None
         THEN [raised |-> "AttributeError", errs |-> <<>>]
         ELSE LET type_field == lower(strip(TypeCell(r)))
              IN  IF type_field # <<>> /\ type_field \notin VALID_TYPES
                  THEN [raised |-> "",
                        errs |-> <<InvalidTypeMsg(n, type_field)>>]
                  ELSE [raised |-> "", errs |-> <<>>]
    ELSE [raised |-> "", errs |-> <<>>]

\* The inner loop without its break: every alias of the group is checked.
RECURSIVE GroupCheckNoBreak(_, _, _, _)
GroupCheckNoBreak(n, r, date_field_options, k) ==
    IF k > Len(date_field_options) THEN <<>>
    ELSE LET field_name == date_field_options[k]
             rest == GroupCheckNoBreak(n, r, date_field_options, k + 1)
         IN  IF field_name \in DOMAIN r
             THEN LET date_val == r[field_name]
                  IN  IF /\ date_val # None
                         /\ date_val # <<>>
                         /\ strip(date_val) # <<>>
                         /\ ~validate_date(date_val).valid
                      THEN <<InvalidDateMsg(n, date_val, field_name)>> \o rest
                      ELSE rest
             ELSE rest

\* Lines 68-75: the inner loop over one group's aliases, from alias k on.
RECURSIVE GroupCheck(_, _, _, _)
GroupCheck(n, r, date_field_options, k) ==
    IF k > Len(date_field_options) THEN <<>>
    ELSE LET field_name == date_field_options[k]
         IN  IF field_name \in DOMAIN r
             THEN LET date_val == r[field_name]
                  IN  IF /\ date_val # None
                         /\ date_val # <<>>
                         /\ strip(date_val) # <<>>
                         /\ ~validate_date(date_val).valid
                      THEN <<InvalidDateMsg(n, date_val, field_name)>>
                      ELSE <<>>
             ELSE GroupCheck(n, r, date_field_options, k + 1)

\* Lines 67-75: the outer loop over the groups, from group g on.
RECURSIVE DateChecks(_, _, _)
DateChecks(n, r, g) ==
    IF g > Len(date_fields) THEN <<>>
    ELSE GroupCheck(n, r, date_fields[g], 1) \o DateChecks(n, r, g + 1)

\* Lines 54-75.
RowBody(n, r) ==
    LET t == TypeCheck(n, r)
    IN  IF t.raised # "" THEN t
        ELSE [raised |-> "", errs |-> t.errs \o DateChecks(n, r, 1)]

(***************************************************************************)
(* Files.  A file is what open and csv.DictReader make of it: the          *)
(* exception open raises ("" if none), the exception reading the header    *)
(* line raises, the header, and the data records.  A record is a list of   *)
(* cells or the exception the reader raises in its place; the end of the   *)
(* file is the reader's StopIteration.  Blank lines, which the reader      *)
(* skips, are left out.                                                    *)
(***************************************************************************)
\* The cells of the model: a blank cell, a valid type that is no date, and a
\* valid date that is no type.
ValueList ==
    << <<" ">>,
       <<" ", "T", "a", "s", "k", " ">>,
       <<" ", "6", "/", "1", "/", "2", "0", "2", "5", " ">> >>

\* The headers of the files main finds: none, one alias of each check, two
\* aliases of one group.
FoundHeaders ==
    { <<>>,
      <<"type", "start_date", "end_date", "Date">>,
      <<"start", "Type", "Start">> }

\* The headers of the files validated repeatedly: these, and headers whose
\* aliases stand in another order than in the alias lists.
Headers ==
    FoundHeaders
    \cup { <<"Due Date", "date", "Date">>,
           <<"Type", "end", "type">> }

OpenExceptions == {"OSError"}

ReaderExceptions == {"csv.Error", "UnicodeDecodeError"}

EndOfFile == [exc |-> "StopIteration", cells |-> <<>>]

Max(a, b) == IF a >= b THEN a ELSE b

\* The records a file with this header can hold: rows of every length up
\* to the header's whose cells run through the value list, the row whose
\* every cell fails its check, and the reader's exceptions.
Records(fieldnames) ==
    {[exc |-> "",
      cells |-> [i \in 1..k |-> ValueList[((j + i) % Len(ValueList)) + 1]]] :
        k \in 1..Max(Len(fieldnames), 1), j \in 1..Len(ValueList)}
    \cup {[exc |-> "",
           cells |-> [i \in 1..Len(fieldnames) |->
                        IF \E a \in 1..Len(type_aliases) :
                               fieldnames[i] = type_aliases[a]
                        THEN ValueList[3]
                        ELSE ValueList[2]]] : k \in 1..Len(fieldnames)}
    \cup {[exc |-> e, cells |-> <<>>] : e \in ReaderExceptions}

UnknownFile ==
    [known |-> FALSE, open |-> "", header_exc |-> "", header |-> <<>>,
     items |-> <<>>]

\* What opening the path and reading its header line can give.
OpenOutcomes(path) ==
    IF disk[path].known THEN {disk[path]}
    ELSE {[UnknownFile EXCEPT !.open = e] : e \in OpenExceptions}
         \cup {[UnknownFile EXCEPT !.header_exc = e] : e \in ReaderExceptions}
         \cup {[UnknownFile EXCEPT !.header = h] : h \in FoundHeaders}

\* What the reader can give as the k-th data record.
NextRecords(path, k, fieldnames) ==
    IF disk[path].known
    THEN {IF k <= Len(disk[path].items) THEN disk[path].items[k]
          ELSE EndOfFile}
    ELSE IF k > MaxRows THEN {EndOfFile}
    ELSE Records(fieldnames) \cup {EndOfFile}

(***************************************************************************)
(* validate_csv_file                                                       *)
(***************************************************************************)
\* An error list that outlives the call: the list of the previous result.
StaleErrors == IF ret = <<>> THEN <<>> ELSE ret[1]

\* Lines 38-40: the locals of a call.
FreshErrors == <<>>

\* A header test that never fires.
HeadersNeverMissing(fieldnames) == FALSE

\* Line 47: if not headers
NoHeaders(fieldnames) == Len(fieldnames) = 0

\* Lines 77-82: an exception e reaches the except clauses with the locals
\* errs and n; the matching clause appends its message and the function
\* returns, or no clause matches and the exception leaves the function.
Caught(e, errs, n) ==
    /\ raised' = e
    /\ aborts' = aborts + 1
    /\ IF ExceptClause(e) = <<>>
       THEN /\ pc' = "propagated"
            /\ errors' = errs
            /\ ret' = <<>>
       ELSE /\ pc' = "returned"
            /\ errors' = errs \o ExceptClause(e)
            /\ ret' = <<errs \o ExceptClause(e), <<>>, n>>
    /\ warnings' = <<>>
    /\ row_count' = n

\* Lines 38-49: the locals, open, the reader and its header.
ValidateOpen ==
    /\ pc = "call"
    /\ \E f \in OpenOutcomes(filepath) :
          IF f.open # ""
          THEN /\ Caught(f.open, FreshErrors, 0)
               /\ headers' = <<>>
          ELSE IF f.header_exc # ""
          THEN /\ Caught(f.header_exc, FreshErrors, 0)
               /\ headers' = <<>>
          ELSE /\ headers' = f.header
               /\ raised' = ""
               /\ warnings' = <<>>
               /\ row_count' = 0
               /\ aborts' = aborts
               /\ IF NoHeaders(f.header)
                  THEN /\ errors' = FreshErrors \o <<NoHeadersMsg>>
                       /\ ret' = <<FreshErrors \o <<NoHeadersMsg>>, <<>>, 0>>
                       /\ pc' = "returned"
                  ELSE /\ errors' = FreshErrors
                       /\ ret' = <<>>
                       /\ pc' = "scan"
    /\ consumed' = 0
    /\ en_index' = EnumerateStart
    /\ idx' = 0
    /\ UNCHANGED <<VALID_TYPES, DATE_FORMATS, csv_files, next_file,
                   total_files, total_errors, total_warnings, total_rows,
                   exit_code, validated, sum_errors, sum_rows, filepath, disk,
                   calls, outcomes, date_str, date_result>>

\* Lines 51-82: one iteration of the row loop, from the reader's next record
\* to the end of the body, the except clauses and the return included.
ScanRow ==
    /\ pc = "scan"
    /\ \E item \in NextRecords(filepath, consumed + 1, headers) :
          IF item.exc = "StopIteration"
          THEN /\ pc' = "returned"
               /\ ret' = <<errors, warnings, row_count>>
               /\ UNCHANGED <<consumed, en_index, idx, errors, warnings,
                              row_count, raised, aborts>>
          ELSE IF item.exc # ""
          THEN /\ Caught(item.exc, errors, row_count)
               /\ consumed' = consumed + 1
               /\ UNCHANGED <<en_index, idx>>
          ELSE LET body == RowBody(en_index, RowDict(headers, item.cells))
               IN  /\ consumed' = consumed + 1
                   /\ idx' = en_index
                   /\ en_index' = en_index + 1
                   /\ IF body.raised # ""
                      THEN Caught(body.raised, errors \o body.errs,
                                  row_count + 1)
                      ELSE /\ errors' = errors \o body.errs
                           /\ row_count' = row_count + 1
                           /\ UNCHANGED <<pc, warnings, raised, ret, aborts>>
    /\ UNCHANGED <<VALID_TYPES, DATE_FORMATS, csv_files, next_file,
                   total_files, total_errors, total_warnings, total_rows,
                   exit_code, validated, sum_errors, sum_rows, filepath,
                   headers, disk, calls, outcomes, date_str, date_result>>

\* The locals of validate_csv_file when no call is running.
NoFrame ==
    /\ filepath = 0
    /\ headers = <<>>
    /\ consumed = 0
    /\ en_index = 0
    /\ idx = 0
    /\ errors = <<>>
    /\ warnings = <<>>
    /\ row_count = 0
    /\ raised = ""

(***************************************************************************)
(* main                                                                    *)
(***************************************************************************)
\* A path is its rank in the order of pathlib paths.
Paths == 1..MaxFiles

\* The files in the reverse of their order.
RECURSIVE reversed(_)
reversed(S) ==
    IF S = {} THEN <<>>
    ELSE LET greatest == CHOOSE x \in S : \A y \in S : x >= y
         IN  <<greatest>> \o reversed(S \ {greatest})

\* sorted(...)
RECURSIVE sorted(_)
sorted(S) ==
    IF S = {} THEN <<>>
    ELSE LET least == CHOOSE x \in S : \A y \in S : x <= y
         IN  <<least>> \o sorted(S \ {least})

\* The locals of the call that returned are discarded.
FrameGone ==
    /\ filepath' = 0
    /\ headers' = <<>>
    /\ consumed' = 0
    /\ en_index' = 0
    /\ idx' = 0
    /\ errors' = <<>>
    /\ warnings' = <<>>
    /\ row_count' = 0
    /\ raised' = ""

\* A total that counts files with messages, not messages.
AddOneIfAny(total, messages) ==
    IF messages # <<>> THEN total + 1 ELSE total

\* Lines 110-111 and 116-117: if messages: total += len(messages)
AddIfAny(total, messages) ==
    IF messages # <<>> THEN total + Len(messages) ELSE total

\* Lines 131-136.
ExitStatus(n_errors) == IF n_errors = 0 THEN 0 ELSE 1

\* Lines 86-97: the totals, and the sorted list of the files rglob finds.
MainStart ==
    /\ pc = "main"
    /\ \E found \in SUBSET Paths : csv_files' = sorted(found)
    /\ total_files' = 0
    /\ total_errors' = 0
    /\ total_warnings' = 0
    /\ total_rows' = 0
    /\ pc' = "loop"
    /\ UNCHANGED <<VALID_TYPES, DATE_FORMATS, next_file, exit_code, validated,
                   sum_errors, sum_rows, aborts, filepath, headers, consumed,
                   en_index, idx, errors, warnings, row_count, raised, ret,
                   disk, calls, outcomes, date_str, date_result>>

\* Lines 99-103: the next file of the loop, up to the call.
MainCall ==
    /\ pc = "loop"
    /\ next_file < Len(csv_files)
    /\ next_file' = next_file + 1
    /\ total_files' = total_files + 1
    /\ filepath' = csv_files[next_file + 1]
    /\ validated' = Append(validated, csv_files[next_file + 1])
    /\ pc' = "call"
    /\ UNCHANGED <<VALID_TYPES, DATE_FORMATS, csv_files, total_errors,
                   total_warnings, total_rows, exit_code, sum_errors,
                   sum_rows, aborts, headers, consumed, en_index, idx, errors,
                   warnings, row_count, raised, ret, disk, calls, outcomes,
                   date_str, date_result>>

\* Lines 103-122: the returned triple is added to the totals and printed;
\* the locals of the finished call are gone.
MainAccumulate ==
    /\ pc = "returned"
    /\ total_rows' = total_rows + ret[3]
    /\ total_errors' = AddIfAny(total_errors, ret[1])
    /\ total_warnings' = AddIfAny(total_warnings, ret[2])
    /\ sum_errors' = sum_errors + Len(ret[1])
    /\ sum_rows' = sum_rows + ret[3]
    /\ FrameGone
    /\ ret' = <<>>
    /\ pc' = "loop"
    /\ UNCHANGED <<VALID_TYPES, DATE_FORMATS, csv_files, next_file,
                   total_files, exit_code, validated, aborts, disk, calls,
                   outcomes, date_str, date_result>>

\* Lines 124-136: the summary and the exit status.
MainSummary ==
    /\ pc = "loop"
    /\ next_file = Len(csv_files)
    /\ exit_code' = ExitStatus(total_errors)
    /\ pc' = "done"
    /\ UNCHANGED <<VALID_TYPES, DATE_FORMATS, csv_files, next_file,
                   total_files, total_errors, total_warnings, total_rows,
                   validated, sum_errors, sum_rows, aborts, filepath, headers,
                   consumed, en_index, idx, errors, warnings, row_count,
                   raised, ret, disk, calls, outcomes, date_str, date_result>>

Pending == [valid |-> FALSE, parsed |-> <<"pending">>]

\* The state every caller starts from: the module is loaded, nothing runs.
Loaded ==
    /\ VALID_TYPES = ValidTypeSet
    /\ DATE_FORMATS = DateFormatList
    /\ csv_files = <<>>
    /\ next_file = 0
    /\ total_files = 0
    /\ total_errors = 0
    /\ total_warnings = 0
    /\ total_rows = 0
    /\ exit_code = -1
    /\ validated = <<>>
    /\ sum_errors = 0
    /\ sum_rows = 0
    /\ aborts = 0
    /\ NoFrame
    /\ ret = <<>>
    /\ calls = 0
    /\ outcomes = <<>>
    /\ date_result = Pending

Init ==
    /\ Loaded
    /\ date_str = <<>>
    /\ pc = "main"
    /\ disk = [p \in Paths |-> UnknownFile]

Next == MainStart \/ MainCall \/ ValidateOpen \/ ScanRow \/ MainAccumulate
        \/ MainSummary

Spec == Init /\ [][Next]_vars

\* main runs to its end: a sequential program keeps taking its next step.
LiveSpec == Spec /\ WF_vars(Next)

(***************************************************************************)
(* Properties of validate_csv_file under main (Spec).                      *)
(***************************************************************************)
RowLevelKinds == {"Invalid type", "Invalid date format"}

FileLevelKinds == {"CSV parsing error", "Unexpected error"}

RowLevel(m) == m.kind \in RowLevelKinds

\* The call aborts in this step.
Aborting == raised = "" /\ raised' # ""

\* C3: validate_csv_file never lets a failure reach its caller.  Whatever is
\* raised while opening, reading or checking the file, the call returns the
\* triple (errors, warnings, rowCount): errors is the row-level errors
\* collected before the failure followed by exactly one file-level message,
\* rowCount is the number of rows counted before the abort, and no row is
\* read after the failing point.
C3_FailureIsReturned ==
    /\ [](pc # "propagated")
    /\ [](raised # "" =>
            /\ pc = "returned"
            /\ ret = <<errors, <<>>, row_count>>
            /\ errors # <<>>
            /\ errors[Len(errors)].kind \in FileLevelKinds
            /\ \A i \in 1..(Len(errors) - 1) : RowLevel(errors[i]))
    /\ [][Aborting =>
            /\ \E m \in {CsvErrorMsg(raised'), UnexpectedMsg(raised')} :
                  errors' = Append(errors, m)
            /\ row_count' = en_index' - EnumerateStart
            /\ row_count' \in {row_count, row_count + 1}]_vars
    /\ [][raised # "" => consumed' <= consumed]_vars

\* A file whose second row makes the type check fail, after a first row that
\* has an error of its own.
C3_Witness ==
    /\ pc = "returned"
    /\ raised = "AttributeError"
    /\ row_count = 2
    /\ Len(errors) >= 2
    /\ RowLevel(errors[1])
    /\ errors[Len(errors)] = UnexpectedMsg("AttributeError")

\* C5: main exits with 0 exactly when the total number of errors is 0 and
\* with 1 otherwise; the total is the sum over the validated files of the
\* length of the returned error list, and the total row count is the sum of
\* the returned row counts.
C5_ExitStatus ==
    /\ pc # "main" => total_errors = sum_errors /\ total_rows = sum_rows
    /\ pc = "done" =>
          /\ exit_code \in {0, 1}
          /\ exit_code = 0 <=> sum_errors = 0

\* Two files validated, one of them with several errors, and exit status 1.
C5_Witness ==
    /\ pc = "done"
    /\ exit_code = 1
    /\ Len(validated) = 2
    /\ sum_errors >= 3
    /\ sum_rows >= 3

\* C6: a file without a header line yields exactly the one message
\* "No headers found", no warnings and rowCount 0, and none of its rows is
\* scanned.
C6_NoHeaders ==
    (pc \in {"scan", "returned"} /\ raised = "" /\ headers = <<>>) =>
        /\ pc = "returned"
        /\ ret = << <<NoHeadersMsg>>, <<>>, 0 >>
        /\ consumed = 0
        /\ idx = 0
        /\ row_count = 0

\* The call on a file without a header has returned.
C6_Witness ==
    /\ pc = "returned"
    /\ raised = ""
    /\ headers = <<>>
    /\ ret = << <<NoHeadersMsg>>, <<>>, 0 >>

\* C7: during the scan the row number of the messages is rowCount + 1, the
\* first data row being row 2, so every row-level error carries a number n
\* with 2 <= n <= rowCount + 1; a scan that ends without abort returns the
\* number of data rows, and a file with only a header returns 0 rows and no
\* error.
C7_RowNumbers ==
    /\ [](idx # 0 => idx = row_count + 1)
    /\ [](\A i \in 1..Len(errors) :
            RowLevel(errors[i]) =>
                2 <= errors[i].row /\ errors[i].row <= row_count + 1)
    /\ [][\A i \in (Len(errors) + 1)..Len(errors') :
            RowLevel(errors'[i]) => errors'[i].row = row_count' + 1]_vars
    /\ []((pc = "returned" /\ raised = "" /\ headers # <<>>) =>
            /\ ret[3] = consumed
            /\ row_count = consumed
            /\ consumed = 0 => ret = << <<>>, <<>>, 0 >>)

\* A scan of two rows that ended without abort, the last error on row 3.
C7_Witness ==
    /\ pc = "returned"
    /\ raised = ""
    /\ consumed = 2
    /\ ret[3] = 2
    /\ errors # <<>>
    /\ errors[Len(errors)].row = 3

\* The position of a row-level error among the checks of its row.
GroupOf(column) ==
    CHOOSE g \in 1..Len(date_fields) :
        \E k \in 1..Len(date_fields[g]) : date_fields[g][k] = column

Rank(m) == IF m.kind = "Invalid type" THEN 1 ELSE 1 + GroupOf(m.column)

Precedes(m1, m2) ==
    \/ m1.row < m2.row
    \/ m1.row = m2.row /\ Rank(m1) < Rank(m2)

\* C10: in the error list the row-level errors are ordered by row number
\* and, within a row, type before start group before end group before
\* generic group, one error per check at most; a message that is not
\* row-level is the last element, so there is at most one; a returned list
\* has at most 4 * rowCount + 1 elements.
C10_ErrorOrder ==
    /\ \A i \in 1..Len(errors) : ~RowLevel(errors[i]) => i = Len(errors)
    /\ \A i, j \in 1..Len(errors) :
          (i < j /\ RowLevel(errors[i]) /\ RowLevel(errors[j])) =>
              Precedes(errors[i], errors[j])
    /\ pc = "returned" =>
          /\ ret[1] = errors
          /\ Len(ret[1]) <= 4 * ret[3] + 1

\* One row with an error of each of the four checks, then a read failure.
C10_Witness ==
    /\ pc = "returned"
    /\ raised = "csv.Error"
    /\ ret[3] = 1
    /\ Len(ret[1]) = 5

(***************************************************************************)
(* Properties of main to its end (LiveSpec).                               *)
(***************************************************************************)
IsPrefix(s, t) ==
    /\ Len(s) <= Len(t)
    /\ \A i \in 1..Len(s) : s[i] = t[i]

\* C4: main validates the files it found one after another in sorted order,
\* each exactly once; whatever happens inside the validation of a file (row
\* errors, a parse abort, an unexpected failure) main goes on, and it
\* reaches its summary with every file validated.
C4_BatchCompletes ==
    /\ [](\A i, j \in 1..Len(csv_files) :
            i < j => csv_files[i] < csv_files[j])
    /\ [](/\ IsPrefix(validated, csv_files)
          /\ Len(validated) = next_file
          /\ total_files = next_file)
    /\ [](pc \in {"call", "scan", "returned"} =>
            /\ next_file >= 1
            /\ filepath = csv_files[next_file])
    /\ [](pc = "done" => validated = csv_files)
    /\ <>(pc = "done")

\* The summary is reached after two files, the validation of one aborted.
C4_Witness ==
    /\ pc = "done"
    /\ validated = <<1, 2>>
    /\ aborts >= 1
    /\ sum_rows >= 1

(***************************************************************************)
(* A caller of validate_date alone, on one argument.                       *)
(***************************************************************************)
Spaces(n) == [i \in 1..n |-> " "]

DateParts ==
    { <<>>,
      <<"2", "0", "2", "5">>, <<"2", "0", "2", "4">>, <<"0", "0", "0", "0">>,
      <<"0", "6">>, <<"6">>, <<"0", "2">>, <<"2", "9">>, <<"3", "0">>,
      <<"1", "3">>, <<"0", "1">>, <<"1">>, <<" ", "1">>, <<"1", "x">> }

Separators == {"-", "/"}

DateInputs ==
    {Spaces(a) \o x \o <<s1>> \o y \o <<s2>> \o z \o Spaces(b) :
        a \in 0..MaxPad, b \in 0..MaxPad, x \in DateParts, y \in DateParts,
        z \in DateParts, s1 \in Separators, s2 \in Separators}
    \cup {Spaces(n) : n \in 0..MaxPad}

InitDate ==
    /\ Loaded
    /\ date_str \in DateInputs
    /\ pc = "date"
    /\ disk = [p \in Paths |-> UnknownFile]

\* validate_date(date_str)
DateCall ==
    /\ pc = "date"
    /\ date_result' = validate_date(date_str)
    /\ pc' = "date_done"
    /\ UNCHANGED <<VALID_TYPES, DATE_FORMATS, csv_files, next_file,
                   total_files, total_errors, total_warnings, total_rows,
                   exit_code, validated, sum_errors, sum_rows, aborts,
                   filepath, headers, consumed, en_index, idx, errors,
                   warnings, row_count, raised, ret, disk, calls, outcomes,
                   date_str>>

NextDate == DateCall

SpecDate == InitDate /\ [][NextDate]_vars

\* The formats of the contract: ISO, slash, dash.
ContractFormats ==
    << <<"%", "Y", "-", "%", "m", "-", "%", "d">>,
       <<"%", "m", "/", "%", "d", "/", "%", "Y">>,
       <<"%", "m", "-", "%", "d", "-", "%", "Y">> >>

\* The contract formats that parse the whole of s.
Parsing(s) ==
    {i \in 1..Len(ContractFormats) :
        strptime(s, ContractFormats[i]) # ValueError}

\* C8: validate_date changes nothing and returns (true, no date) for an
\* empty or whitespace-only argument; otherwise the first format that parses
\* the whole trimmed argument gives (true, that date), and (false, no date)
\* is returned when none does.  The arguments accepted are those of the ISO,
\* slash and dash formats: the entry with the non-padding directives and the
\* duplicate entry accept nothing more.
C8_ValidateDate ==
    pc = "date_done" =>
        LET s == strip(date_str)
            first == CHOOSE i \in Parsing(s) : \A j \in Parsing(s) : i <= j
        IN  /\ DATE_FORMATS = <<ContractFormats[1], ContractFormats[2],
                                ContractFormats[3],
                                <<"%", "-", "m", "/", "%", "-", "d", "/",
                                  "%", "Y">>,
                                ContractFormats[2]>>
            /\ date_result =
                  IF s = <<>> THEN [valid |-> TRUE, parsed |-> None]
                  ELSE IF Parsing(s) = {}
                  THEN [valid |-> FALSE, parsed |-> None]
                  ELSE [valid |-> TRUE,
                        parsed |-> strptime(s, ContractFormats[first])]

\* A padded argument with an unpadded month, accepted by the dash format.
C8_Witness ==
    /\ pc = "date_done"
    /\ date_str = <<" ", "6", "-", "1", "-", "2", "0", "2", "4", " ">>
    /\ date_result = [valid |-> TRUE, parsed |-> <<2024, 6, 1>>]


(***************************************************************************)
(* A caller that validates files of a known disk again and again.          *)
(***************************************************************************)
KnownFile(f) == [f EXCEPT !.known = TRUE]

KnownFiles ==
    {KnownFile([UnknownFile EXCEPT !.open = e]) : e \in OpenExceptions}
    \cup {KnownFile([UnknownFile EXCEPT !.header_exc = e]) :
            e \in ReaderExceptions}
    \cup UNION {
           UNION {
             {KnownFile([UnknownFile EXCEPT !.header = h, !.items = recs]) :
                 recs \in [1..n -> Records(h)]} : n \in 0..MaxRows} :
           h \in Headers}

\* The file the other paths hold: one row with a bad type and a bad date.
OtherFile ==
    KnownFile([UnknownFile EXCEPT
        !.header = <<"type", "start_date", "end_date">>,
        !.items = <<[exc |-> "",
                     cells |-> <<ValueList[3], ValueList[2], ValueList[1]>>]>>])

InitRepeat ==
    /\ Loaded
    /\ date_str = <<>>
    /\ pc = "idle"
    /\ \E f \in KnownFiles :
          disk = [p \in Paths |-> IF p = 1 THEN f ELSE OtherFile]

\* errors, warnings, row_count = validate_csv_file(p), up to the call
RepeatCall ==
    /\ pc = "idle"
    /\ calls < MaxCalls
    /\ \E p \in {1, 2} : filepath' = p
    /\ calls' = calls + 1
    /\ pc' = "call"
    /\ UNCHANGED <<VALID_TYPES, DATE_FORMATS, csv_files, next_file,
                   total_files, total_errors, total_warnings, total_rows,
                   exit_code, validated, sum_errors, sum_rows, aborts,
                   headers, consumed, en_index, idx, errors, warnings,
                   row_count, raised, ret, disk, outcomes, date_str,
                   date_result>>

\* The caller keeps the triple it received.
RepeatRecord ==
    /\ pc = "returned"
    /\ outcomes' = Append(outcomes, [path |-> filepath, result |-> ret])
    /\ FrameGone
    /\ pc' = "idle"
    /\ UNCHANGED <<VALID_TYPES, DATE_FORMATS, csv_files, next_file,
                   total_files, total_errors, total_warnings, total_rows,
                   exit_code, validated, sum_errors, sum_rows, aborts, ret,
                   disk, calls, date_str, date_result>>

NextRepeat == RepeatCall \/ ValidateOpen \/ ScanRow \/ RepeatRecord

SpecRepeat == InitRepeat /\ [][NextRepeat]_vars

(***************************************************************************)
(* Properties of repeated validation (SpecRepeat).                         *)
(***************************************************************************)
\* C9: validating the same unmodified file again, with other validations in
\* between, returns the same error list and the same rowCount, and no call
\* changes the type vocabulary or the format list.
C9_Idempotent ==
    /\ \A i, j \in 1..Len(outcomes) :
          outcomes[i].path = outcomes[j].path =>
              outcomes[i].result = outcomes[j].result
    /\ VALID_TYPES = ValidTypeSet
    /\ DATE_FORMATS = DateFormatList

\* A file with errors validated twice, another file validated in between.
C9_Witness ==
    /\ Len(outcomes) = 3
    /\ outcomes[1].path = 1
    /\ outcomes[2].path = 2
    /\ outcomes[3].path = 1
    /\ Len(outcomes[1].result[1]) >= 2
    /\ outcomes[1].result[3] = 2
    /\ outcomes[2].result[1] # <<>>

\* The data rows of the file being validated that the scan has read, by
\* their position among the records.
ScannedRows ==
    IF pc \in {"scan", "returned"}
    THEN {k \in 1..consumed : disk[filepath].items[k].exc = ""}
    ELSE {}

RowAt(k) == RowDict(headers, disk[filepath].items[k].cells)

\* The errors of the list that a check of row n appended.
TypeErrorsOf(n) ==
    SelectSeq(errors, LAMBDA m : m.kind = "Invalid type" /\ m.row = n)

DateErrorsOf(n) ==
    SelectSeq(errors, LAMBDA m : m.kind = "Invalid date format" /\ m.row = n)

GroupErrorsOf(n, g) ==
    SelectSeq(DateErrorsOf(n), LAMBDA m : GroupOf(m.column) = g)

\* The aliases of group g that are headers of the row, by position.
PresentAliases(r, g) ==
    {k \in 1..Len(date_fields[g]) : date_fields[g][k] \in DOMAIN r}

\* What the date rule asks of group g on row n: the first present alias
\* alone, an error when its value is not blank and not a date.
GroupRule(n, r, g) ==
    IF PresentAliases(r, g) = {} THEN <<>>
    ELSE LET first == CHOOSE k \in PresentAliases(r, g) :
                          \A j \in PresentAliases(r, g) : k <= j
             alias == date_fields[g][first]
             value == r[alias]
         IN  IF value # None /\ strip(value) # <<>>
                /\ ~validate_date(value).valid
             THEN <<InvalidDateMsg(n, value, alias)>>
             ELSE <<>>

\* What the type rule asks on row n: type before Type, an error when the
\* value, trimmed and lowercased, is not empty and not in the vocabulary.
TypeRule(n, r) ==
    IF "type" \in DOMAIN r \/ "Type" \in DOMAIN r
    THEN LET value == IF "type" \in DOMAIN r THEN r["type"] ELSE r["Type"]
         IN  IF value # None /\ lower(strip(value)) # <<>>
                /\ lower(strip(value)) \notin ValidTypeSet
             THEN <<InvalidTypeMsg(n, lower(strip(value)))>>
             ELSE <<>>
    ELSE <<>>

\* C1: for every data row and each of the three date groups only the first
\* alias of the group present as a header is consulted; the group's error,
\* naming that alias, is emitted exactly when its value is not empty after
\* trimming and validate_date rejects it, whatever the type check and the
\* other groups did; an empty value, or no alias in the header, emits
\* nothing.
C1_DateGroups ==
    \A k \in ScannedRows : \A g \in 1..Len(date_fields) :
        GroupErrorsOf(k + 1, g) = GroupRule(k + 1, RowAt(k), g)

\* C2: for every data row the type error is emitted exactly when a header
\* type or Type is present and its value, trimmed and lowercased, is not
\* empty and not in the vocabulary; whether or not it is emitted, the date
\* checks of the row are performed and the scan goes on to the next row.
C2_TypeCheck ==
    \A k \in ScannedRows :
        /\ TypeErrorsOf(k + 1) = TypeRule(k + 1, RowAt(k))
        /\ DateErrorsOf(k + 1) = DateChecks(k + 1, RowAt(k), 1)
        /\ k = consumed => raised = ""

====
